---------------------------- MODULE Spec2Model ----------------------------
(***************************************************************************)
(* State-machine model of src/main.py: the keyword analyzer                *)
(* (get_keyword_data), the scheduled job (run_analytics_and_store) and the *)
(* on-demand endpoint (get_analytics), with the MongoDB collection as the  *)
(* Result Sink and the Selenium scraper as the Post Source.                *)
(*                                                                         *)
(* Sentiment polarities are scaled integers (tenths): 0.2 is 2.            *)
(***************************************************************************)
EXTENDS Integers, Sequences, FiniteSets, TLC

(***************************************************************************)
(* Bounds of the model.                                                    *)
(***************************************************************************)
\* Number of entries of KEYWORDS that a run iterates over (14 in the source).
NumKeywords == 2
\* Largest number of posts one fetch returns (max_tweets is 20 in the source).
MaxTweets == 3
\* Value of max_scroll_attempts in the model (10 in the source).
MaxScrollAttempts == 3
\* Largest number of cards one find_elements call returns.
MaxCards == 2

(***************************************************************************)
(* Program constants.                                                      *)
(***************************************************************************)
\* The strict thresholds 0.2 / -0.2 of get_keyword_data, in tenths.
Threshold == 2

KeywordNames == <<"Ethereum", "ETH", "Bitcoin", "BTC", "SOL", "Bored Ape",
                  "BAYC", "Polygon", "Chainlink", "LINK", "Shiba Inu",
                  "SHIB", "Uniswap", "UNI">>

KEYWORDS == SubSeq(KeywordNames, 1, NumKeywords)

\* The executions (threads) that may run an entry point.
Procs == {1, 2}

\* Value of a document's "error" field when the field is absent.
NoError == "<absent>"

VARIABLES
    credentials,   \* TWITTER_MAIL / TWITTER_USERNAME / TWITTER_PASSWORD set?
    collection,    \* the MongoDB collection: sequence of documents, _id = index
    pc,            \* per execution: position in the entry point
    entry,         \* per execution: the entry point it runs
    driver,        \* per execution: scraper.driver: "none", "open", "quit"
    quits,         \* per execution: number of driver.quit() calls made
    document_id,   \* per execution: document_id local (0: not in locals())
    idx,           \* per execution: position of the for loop in KEYWORDS
    exc,           \* per execution: the exception e caught by the outer handler
    results,       \* per execution: the local list `results` of get_analytics
    response,      \* per execution: what the entry point returned / raised
    trace,         \* per execution: history of the external calls and outcomes
    tweets,        \* analyzer check: the fetch outcome given to get_keyword_data
    analysis,      \* analyzer check: the record get_keyword_data returned
    spc,             \* scrape: position in scrape_keyword_tweets
    tweets_data,     \* scrape: the list tweets_data
    tweet_ids,       \* scrape: the set tweet_ids of str(card) values
    scroll_attempts, \* scrape: the counter scroll_attempts
    added_tweets,    \* scrape: the counter added_tweets of the iteration
    cards_left,      \* scrape: cards of tweet_cards not yet iterated
    iterations,      \* scrape history: iterations of the while loop so far
    stale,           \* scrape history: consecutive iterations that added no post
    lpc,             \* login: position in login()
    input_attempt,   \* login: the counter input_attempt of the current step
    lookups,         \* login history: the find_element calls and their outcomes
    login_error      \* login: message of the exception login() re-raised

\* The state of one call of scrape_keyword_tweets.
scrapeVars == <<spc, tweets_data, tweet_ids, scroll_attempts, added_tweets,
                cards_left, iterations, stale>>

\* The state of one call of login().
loginVars == <<lpc, input_attempt, lookups, login_error>>

vars == <<credentials, collection, pc, entry, driver, quits, document_id, idx,
          exc, results, response, trace, tweets, analysis, scrapeVars, loginVars>>

runVars == <<credentials, collection, pc, entry, driver, quits, document_id,
             idx, exc, results, response, trace>>

(***************************************************************************)
(* Posts and the Sentiment Scorer.                                         *)
(***************************************************************************)
\* Contents a scraped card may carry; "" is a card without tweet text.
Contents == {"", "moon", "good", "meh", "bad", "scam"}

\* TextBlob(content).sentiment.polarity, in tenths.
Polarity(content) ==
    CASE content = "moon" -> 8
      [] content = "good" -> 2
      [] content = "meh"  -> 0
      [] content = "bad"  -> -2
      [] content = "scam" -> -7
      [] OTHER            -> 0

\* A dict returned by _extract_tweet_data for a card that is not an ad.
Tweet(content) == [content |-> content, is_ad |-> FALSE]

RECURSIVE SeqsUpTo(_, _)
SeqsUpTo(S, n) ==
    IF n = 0 THEN {<<>>}
    ELSE LET shorter == SeqsUpTo(S, n - 1)
         IN  shorter \cup {Append(s, x) : s \in shorter, x \in S}

\* What scraper.scrape_keyword_tweets can do: raise, or return a list of at
\* most max_tweets non-ad posts.
Raised == [raised |-> TRUE]
Returned(ts) == [raised |-> FALSE, tweets |-> ts]

AllFetches ==
    {Raised} \cup {Returned(ts) : ts \in SeqsUpTo({Tweet(c) : c \in Contents}, MaxTweets)}

\* The fetch outcomes explored inside a run.
RunFetches ==
    { Raised,
      Returned(<<>>),
      Returned(<<Tweet("moon"), Tweet("")>>) }

(***************************************************************************)
(* get_keyword_data                                                        *)
(***************************************************************************)
RECURSIVE Sum(_)
Sum(s) == IF s = <<>> THEN 0 ELSE Head(s) + Sum(Tail(s))

\* Variant: posts with empty content are scored too.
ScoredAnyContent(tweet) == ~tweet.is_ad

\* The list `sentiments`: polarity of every post with non-empty content.
Scored(tweet) == ~tweet.is_ad /\ tweet.content # ""

RECURSIVE Sentiments(_)
Sentiments(ts) ==
    IF ts = <<>> THEN <<>>
    ELSE IF Scored(Head(ts))
         THEN <<Polarity(Head(ts).content)>> \o Sentiments(Tail(ts))
         ELSE Sentiments(Tail(ts))

\* Variant: s >= 0.2 in place of s > 0.2.
PositiveCountInclusive(sentiments) ==
    Cardinality({i \in 1..Len(sentiments) : sentiments[i] >= Threshold})

\* sum(1 for s in sentiments if s > 0.2) and ... if s < -0.2
PositiveCount(sentiments) ==
    Cardinality({i \in 1..Len(sentiments) : sentiments[i] > Threshold})

NegativeCount(sentiments) ==
    Cardinality({i \in 1..Len(sentiments) : sentiments[i] < -Threshold})

\* Variant: the division without the `if sentiments` guard.
AverageUnguarded(sentiments) ==
    [num |-> Sum(sentiments), den |-> Len(sentiments)]

\* sum(sentiments) / len(sentiments) if sentiments else 0, as a fraction.
Average(sentiments) ==
    IF sentiments # <<>>
    THEN [num |-> Sum(sentiments), den |-> Len(sentiments)]
    ELSE [num |-> 0, den |-> 1]

\* Variant: counts the scored posts only.
TweetCountScored(ts) == Len(Sentiments(ts))

\* "tweet_count": len(tweets)
TweetCount(ts) == Len(ts)

\* Variant: the record names the first keyword instead of the failed one.
ErrorRecordStale(keyword, msg) == [keyword |-> KeywordNames[1], error |-> msg]

ErrorRecord(keyword, msg) == [keyword |-> keyword, error |-> msg]

GetKeywordData(keyword, fetch) ==
    IF fetch.raised
    THEN ErrorRecord(keyword, "str(e)")
    ELSE LET sentiments == Sentiments(fetch.tweets)
             positive_count == PositiveCount(sentiments)
             negative_count == NegativeCount(sentiments)
             neutral_count == Len(sentiments) - positive_count - negative_count
         IN  [keyword |-> keyword,
              tweet_count |-> TweetCount(fetch.tweets),
              average_sentiment |-> Average(sentiments),
              sentiment_distribution |->
                  [positive |-> positive_count,
                   neutral |-> neutral_count,
                   negative |-> negative_count]]

IsFailure(record) == "error" \in DOMAIN record

\* Value of `analysis` before get_keyword_data has returned.
NoAnalysis == [pending |-> TRUE]

(***************************************************************************)
(* The Result Sink: collection.insert_one / collection.update_one          *)
(***************************************************************************)
\* A pymongo call returns normally ("ok"), raises without the write having
\* been applied ("error": server unreachable, write rejected), or raises
\* although the server applied the write ("applied_error": the connection
\* drops or times out before the acknowledgement arrives, or the write
\* concern is not met in time).  The caller sees the same exception in the
\* last two cases, so the code cannot tell them apart.
WriteOutcomes == {"ok", "error", "applied_error"}

Applied(w) == w # "error"
Raises(w) == w # "ok"

\* base_document of run_analytics_and_store; `run` records which execution
\* inserted it (history only, not a field of the stored document).
BaseDocument(p) ==
    [status |-> "in_progress", data |-> <<>>, error |-> NoError, run |-> p]

\* Variant: the record is put in front of the stored ones.
PushFront(doc, record) == [doc EXCEPT !.data = <<record>> \o @]

\* {"$push": {"data": record}}
Push(doc, record) == [doc EXCEPT !.data = Append(@, record)]

\* Variant: the update leaves the status as it is.
SetCompletedDropped(doc) == doc

\* {"$set": {"status": "completed"}}
SetCompleted(doc) == [doc EXCEPT !.status = "completed"]

\* Variant: the update sets the status without the error text.
SetFailedNoError(doc, e) == [doc EXCEPT !.status = "failed"]

\* {"$set": {"status": "failed", "error": str(e)}}
SetFailed(doc, e) == [doc EXCEPT !.status = "failed", !.error = e]

\* Variant: the filter is empty, so the first document is updated.
UpdateFirst(coll, id, new, w) ==
    IF Applied(w) THEN [coll EXCEPT ![1] = new] ELSE coll

\* collection.update_one({"_id": id}, update) with outcome w.
UpdateOne(coll, id, new, w) ==
    IF Applied(w) THEN [coll EXCEPT ![id] = new] ELSE coll

\* collection.insert_one(doc) with outcome w.
InsertOne(coll, doc, w) == IF Applied(w) THEN Append(coll, doc) ELSE coll

(***************************************************************************)
(* The entry points                                                        *)
(***************************************************************************)
Scheduled == "run_analytics_and_store"
OnDemand == "get_analytics"
Entries == {Scheduled, OnDemand}

\* Variant: any(...) in place of all(...).
CredentialsAny ==
    credentials.mail \/ credentials.username \/ credentials.password

\* all([TWITTER_MAIL, TWITTER_USERNAME, TWITTER_PASSWORD])
CredentialsConfigured ==
    credentials.mail /\ credentials.username /\ credentials.password

Log(p, e) == trace' = [trace EXCEPT ![p] = Append(@, e)]

Goto(p, label) == pc' = [pc EXCEPT ![p] = label]

Return(p, value) == response' = [response EXCEPT ![p] = value]

\* Variant: close() that leaves the driver running.
CloseSkipped(d) == d

\* scraper.close(): quits the driver whenever one was ever created.
Close(d) == IF d # "none" THEN "quit" ELSE d
CloseQuits(d) == IF d # "none" THEN 1 ELSE 0

\* login() before its first input step.
LoginIdle ==
    /\ lpc = "username"
    /\ input_attempt = 0
    /\ lookups = <<>>
    /\ login_error = "none"

\* scrape_keyword_tweets at the top of its while loop, nothing collected.
ScrapeIdle ==
    /\ spc = "while"
    /\ tweets_data = <<>>
    /\ tweet_ids = {}
    /\ scroll_attempts = 0
    /\ added_tweets = 0
    /\ cards_left = 0
    /\ iterations = 0
    /\ stale = 0

Init ==
    /\ credentials \in [mail : BOOLEAN, username : BOOLEAN, password : BOOLEAN]
    /\ collection = <<>>
    /\ pc = [p \in Procs |-> "idle"]
    /\ entry = [p \in Procs |-> "none"]
    /\ driver = [p \in Procs |-> "none"]
    /\ quits = [p \in Procs |-> 0]
    /\ document_id = [p \in Procs |-> 0]
    /\ idx = [p \in Procs |-> 1]
    /\ exc = [p \in Procs |-> "none"]
    /\ results = [p \in Procs |-> <<>>]
    /\ response = [p \in Procs |-> [kind |-> "pending"]]
    /\ trace = [p \in Procs |-> <<>>]
    /\ tweets = Raised
    /\ analysis = NoAnalysis
    /\ ScrapeIdle
    /\ LoginIdle

\* Entry of either function up to the construction of the scraper: the
\* credentials check and its early return.
Start(p, e) ==
    /\ pc[p] = "idle"
    /\ entry' = [entry EXCEPT ![p] = e]
    /\ IF CredentialsConfigured
       THEN /\ Goto(p, "login")
            /\ UNCHANGED response
       ELSE /\ Goto(p, "done")
            /\ Return(p, IF e = OnDemand
                         THEN [kind |-> "error", error |-> "not configured"]
                         ELSE [kind |-> "none"])
    /\ UNCHANGED <<credentials, collection, driver, quits, document_id, idx,
                   exc, results, trace, tweets, analysis, scrapeVars, loginVars>>

\* scraper.login(): _get_driver may raise before a driver exists
\* ("no_driver"); any later failure quits the driver and re-raises ("failed").
LoginOutcomes == {"ok", "no_driver", "failed"}

Login(p) ==
    /\ pc[p] = "login"
    /\ \E o \in LoginOutcomes :
        /\ Log(p, [op |-> "login", out |-> o])
        /\ driver' = [driver EXCEPT ![p] =
                         CASE o = "ok" -> "open"
                           [] o = "failed" -> "quit"
                           [] OTHER -> "none"]
        /\ quits' = [quits EXCEPT ![p] = IF o = "failed" THEN @ + 1 ELSE @]
        /\ IF o = "ok"
           THEN /\ Goto(p, IF entry[p] = Scheduled THEN "insert" ELSE "loop")
                /\ UNCHANGED <<exc, response>>
           ELSE IF entry[p] = Scheduled
                THEN /\ Goto(p, "except")
                     /\ exc' = [exc EXCEPT ![p] = "login failed"]
                     /\ UNCHANGED response
                ELSE /\ Goto(p, "finally")
                     /\ Return(p, [kind |-> "error",
                                   error |-> "Failed to get analytics"])
                     /\ UNCHANGED exc
    /\ UNCHANGED <<credentials, collection, entry, document_id, idx,
                   results, tweets, analysis, scrapeVars, loginVars>>

Raise(p, e) == exc' = [exc EXCEPT ![p] = e]

\* run_analytics_and_store: collection.insert_one(base_document) and the
\* assignment of document_id, which only happens when the call returns.
CreateRun(p) ==
    /\ pc[p] = "insert"
    /\ \E w \in WriteOutcomes :
        /\ Log(p, [op |-> "insert_one", out |-> w])
        /\ collection' = InsertOne(collection, BaseDocument(p), w)
        /\ IF Raises(w)
           THEN /\ Goto(p, "except")
                /\ Raise(p, "insert_one failed")
                /\ UNCHANGED document_id
           ELSE /\ Goto(p, "loop")
                /\ document_id' = [document_id EXCEPT ![p] = Len(collection')]
                /\ UNCHANGED exc
    /\ UNCHANGED <<credentials, entry, driver, quits, idx, results, response,
                   tweets, analysis, scrapeVars, loginVars>>

\* Where the loop body goes when its update_one returned or raised.
AfterPush(w) == IF Raises(w) THEN "keyword_except" ELSE "loop"

\* Body of `for keyword in KEYWORDS` of run_analytics_and_store: the try
\* block, get_keyword_data followed by the $push of its result.
ProcessKeyword(p, F) ==
    /\ pc[p] = "loop"
    /\ entry[p] = Scheduled
    /\ idx[p] <= Len(KEYWORDS)
    /\ \E f \in F, w \in WriteOutcomes :
        LET keyword == KEYWORDS[idx[p]]
            record == GetKeywordData(keyword, f)
            doc == collection[document_id[p]]
        IN  /\ trace' = [trace EXCEPT ![p] =
                            @ \o <<[op |-> "analyze", keyword |-> keyword,
                                    fetch |-> f, raised |-> f.raised,
                                    record |-> record],
                                   [op |-> "push", keyword |-> keyword,
                                    record |-> record, out |-> w]>>]
            /\ collection' =
                   UpdateOne(collection, document_id[p], Push(doc, record), w)
            /\ Goto(p, AfterPush(w))
            /\ idx' = [idx EXCEPT ![p] = IF Raises(w) THEN @ ELSE @ + 1]
    /\ UNCHANGED <<credentials, entry, driver, quits, document_id, exc,
                   results, response, tweets, analysis, scrapeVars, loginVars>>

\* The except block of the loop body: the $push of an error record for the
\* keyword, outside any try of its own.
KeywordExcept(p) ==
    /\ pc[p] = "keyword_except"
    /\ \E w \in WriteOutcomes :
        LET keyword == KEYWORDS[idx[p]]
            record == ErrorRecord(keyword, "Failed to process")
            doc == collection[document_id[p]]
        IN  /\ Log(p, [op |-> "push", keyword |-> keyword,
                       record |-> record, out |-> w])
            /\ collection' =
                   UpdateOne(collection, document_id[p], Push(doc, record), w)
            /\ IF Raises(w)
               THEN /\ Goto(p, "except")
                    /\ Raise(p, "update_one failed")
                    /\ UNCHANGED idx
               ELSE /\ Goto(p, "loop")
                    /\ idx' = [idx EXCEPT ![p] = @ + 1]
                    /\ UNCHANGED exc
    /\ UNCHANGED <<credentials, entry, driver, quits, document_id, results,
                   response, tweets, analysis, scrapeVars, loginVars>>

\* After the loop: the $set of status "completed".
MarkCompleted(p) ==
    /\ pc[p] = "loop"
    /\ entry[p] = Scheduled
    /\ idx[p] > Len(KEYWORDS)
    /\ \E w \in WriteOutcomes :
        LET doc == collection[document_id[p]]
        IN  /\ Log(p, [op |-> "set_status", status |-> "completed", out |-> w])
            /\ collection' =
                   UpdateOne(collection, document_id[p], SetCompleted(doc), w)
            /\ IF Raises(w)
               THEN /\ Goto(p, "except")
                    /\ Raise(p, "update_one failed")
               ELSE /\ Goto(p, "finally")
                    /\ UNCHANGED exc
    /\ UNCHANGED <<credentials, entry, driver, quits, document_id, idx,
                   results, response, tweets, analysis, scrapeVars, loginVars>>

\* The outer `except Exception as e` of run_analytics_and_store: the $set of
\* status "failed" when document_id is in locals(); an exception of that
\* update_one leaves the function once the finally block has run.
HandleFatal(p) ==
    /\ pc[p] = "except"
    /\ Goto(p, "finally")
    /\ IF document_id[p] # 0
       THEN \E w \in WriteOutcomes :
            LET doc == collection[document_id[p]]
            IN  /\ Log(p, [op |-> "set_status", status |-> "failed", out |-> w])
                /\ collection' =
                       UpdateOne(collection, document_id[p],
                                 SetFailed(doc, exc[p]), w)
                /\ IF Raises(w)
                   THEN Return(p, [kind |-> "raised"])
                   ELSE UNCHANGED response
       ELSE UNCHANGED <<collection, trace, response>>
    /\ UNCHANGED <<credentials, entry, driver, quits, document_id, idx, exc,
                   results, tweets, analysis, scrapeVars, loginVars>>

\* Body of `for keyword in KEYWORDS` of get_analytics.
ApiProcessKeyword(p, F) ==
    /\ pc[p] = "loop"
    /\ entry[p] = OnDemand
    /\ idx[p] <= Len(KEYWORDS)
    /\ \E f \in F :
        LET keyword == KEYWORDS[idx[p]]
            record == GetKeywordData(keyword, f)
        IN  /\ Log(p, [op |-> "analyze", keyword |-> keyword, fetch |-> f,
                       raised |-> f.raised, record |-> record])
            /\ results' = [results EXCEPT ![p] = Append(@, record)]
    /\ idx' = [idx EXCEPT ![p] = @ + 1]
    /\ UNCHANGED <<credentials, collection, pc, entry, driver, quits,
                   document_id, exc, response, tweets, analysis, scrapeVars, loginVars>>

\* `return results` of get_analytics.
ApiReturn(p) ==
    /\ pc[p] = "loop"
    /\ entry[p] = OnDemand
    /\ idx[p] > Len(KEYWORDS)
    /\ Goto(p, "finally")
    /\ Return(p, [kind |-> "results", results |-> results[p]])
    /\ UNCHANGED <<credentials, collection, entry, driver, quits, document_id,
                   idx, exc, results, trace, tweets, analysis, scrapeVars, loginVars>>

\* The finally block of either entry point (`if scraper: scraper.close()`),
\* after which the function returns or the pending exception propagates.
Finally(p) ==
    /\ pc[p] = "finally"
    /\ Goto(p, "done")
    /\ driver' = [driver EXCEPT ![p] = Close(@)]
    /\ quits' = [quits EXCEPT ![p] = @ + CloseQuits(driver[p])]
    /\ IF response[p].kind = "pending"
       THEN Return(p, [kind |-> "none"])
       ELSE UNCHANGED response
    /\ UNCHANGED <<credentials, collection, entry, document_id, idx, exc,
                   results, trace, tweets, analysis, scrapeVars, loginVars>>

Step(p, F) ==
    \/ \E e \in Entries : Start(p, e)
    \/ Login(p)
    \/ CreateRun(p)
    \/ ProcessKeyword(p, F)
    \/ KeywordExcept(p)
    \/ MarkCompleted(p)
    \/ HandleFatal(p)
    \/ ApiProcessKeyword(p, F)
    \/ ApiReturn(p)
    \/ Finally(p)

\* One execution of an entry point at a time.
Next == Step(1, RunFetches)

Spec == Init /\ [][Next]_vars

(***************************************************************************)
(* get_keyword_data on its own: every fetch outcome within the bounds.     *)
(***************************************************************************)
InitAnalyze ==
    /\ credentials = [mail |-> TRUE, username |-> TRUE, password |-> TRUE]
    /\ collection = <<>>
    /\ pc = [p \in Procs |-> "idle"]
    /\ entry = [p \in Procs |-> "none"]
    /\ driver = [p \in Procs |-> "none"]
    /\ quits = [p \in Procs |-> 0]
    /\ document_id = [p \in Procs |-> 0]
    /\ idx = [p \in Procs |-> 1]
    /\ exc = [p \in Procs |-> "none"]
    /\ results = [p \in Procs |-> <<>>]
    /\ response = [p \in Procs |-> [kind |-> "pending"]]
    /\ trace = [p \in Procs |-> <<>>]
    /\ tweets \in AllFetches
    /\ analysis = NoAnalysis
    /\ ScrapeIdle
    /\ LoginIdle

\* One call get_keyword_data(keyword, scraper) whose fetch does `tweets`.
Analyze ==
    /\ analysis = NoAnalysis
    /\ \E i \in 1..Len(KEYWORDS) :
        analysis' = GetKeywordData(KEYWORDS[i], tweets)
    /\ UNCHANGED <<runVars, tweets, scrapeVars, loginVars>>

SpecAnalyze == InitAnalyze /\ [][Analyze]_vars

(***************************************************************************)
(* Reading the history of an execution                                     *)
(***************************************************************************)
Done(p) == pc[p] = "done"

\* The calls of get_keyword_data made so far, in order.
Analyses(p) == SelectSeq(trace[p], LAMBDA e : e.op = "analyze")

\* The sink calls made so far, in order.
SinkRaised(p) == \E i \in 1..Len(trace[p]) :
    trace[p][i].op \in {"insert_one", "push", "set_status"} /\ Raises(trace[p][i].out)

LoginOk(p) == \E i \in 1..Len(trace[p]) :
    trace[p][i].op = "login" /\ trace[p][i].out = "ok"

LoginFailed(p) == \E i \in 1..Len(trace[p]) :
    trace[p][i].op = "login" /\ trace[p][i].out # "ok"

CreateFailed(p) == \E i \in 1..Len(trace[p]) :
    trace[p][i].op = "insert_one" /\ Raises(trace[p][i].out)

\* Some update_one of the given status was called with outcome in W.
StatusWrite(p, status, W) == \E i \in 1..Len(trace[p]) :
    /\ trace[p][i].op = "set_status"
    /\ trace[p][i].status = status
    /\ trace[p][i].out \in W

\* The $push of the error record in the loop's except block raised too, so
\* the exception left the keyword loop.
LoopEscaped(p) == \E i \in 1..Len(trace[p]) :
    /\ trace[p][i].op = "push"
    /\ Raises(trace[p][i].out)
    /\ trace[p][i].record = ErrorRecord(trace[p][i].keyword, "Failed to process")

AllAnalyzed(p) == Len(Analyses(p)) = Len(KEYWORDS)

AllSucceeded(p) ==
    AllAnalyzed(p) /\ \A i \in 1..Len(Analyses(p)) : ~Analyses(p)[i].raised

\* The documents inserted by execution p.
DocsOf(p) == {id \in 1..Len(collection) : collection[id].run = p}

\* Position of a keyword in KEYWORDS.
KeywordIndex(k) == CHOOSE i \in 1..Len(KEYWORDS) : KEYWORDS[i] = k

(***************************************************************************)
(* Properties of run_analytics_and_store and get_analytics                 *)
(***************************************************************************)

\* C1: in a scheduled run whose sink calls all return, whatever fetches fail:
\* the stored results hold one record per analyzed keyword, in list order,
\* the record of keyword k is a failure record exactly when the fetch for k
\* failed, and when the run ends every keyword was analyzed and the status is
\* completed.
C1_FetchFailureIsolated ==
    \A p \in Procs :
        (entry[p] = Scheduled /\ document_id[p] # 0 /\ ~SinkRaised(p)) =>
            LET doc == collection[document_id[p]]
                an == Analyses(p)
            IN  /\ Len(doc.data) = Len(an)
                /\ \A i \in 1..Len(an) :
                       /\ an[i].keyword = KEYWORDS[i]
                       /\ doc.data[i].keyword = KEYWORDS[i]
                       /\ IsFailure(doc.data[i]) <=> an[i].raised
                /\ Done(p) => (AllAnalyzed(p) /\ doc.status = "completed")

\* C1 witness: a finished run whose first fetch failed and whose second
\* keyword nevertheless has a success record, status completed.
C1_Witness ==
    /\ Done(1) /\ entry[1] = Scheduled /\ document_id[1] # 0 /\ ~SinkRaised(1)
    /\ Len(Analyses(1)) >= 2
    /\ Analyses(1)[1].raised /\ ~Analyses(1)[2].raised
    /\ IsFailure(collection[document_id[1]].data[1])
    /\ ~IsFailure(collection[document_id[1]].data[2])
    /\ collection[document_id[1]].status = "completed"

C3_Original ==
    \A p \in Procs :
        (Done(p) /\ entry[p] = Scheduled /\ document_id[p] # 0) =>
            /\ AllAnalyzed(p)
            /\ ~StatusWrite(p, "completed", {"error", "applied_error"}) =>
                   collection[document_id[p]].status # "failed"

\* C4 as stated: no call of an entry point ends with an exception leaving it.
C4_Original == \A p \in Procs : response[p].kind # "raised"

\* C5 as stated: a finished scheduled run that passed the credentials check
\* and aborted (login failure, insert_one failure, or an exception leaving
\* the keyword loop) has a JobRun with status failed and the error set.
C5_Original ==
    \A p \in Procs :
        ( /\ Done(p) /\ entry[p] = Scheduled /\ CredentialsConfigured
          /\ (LoginFailed(p) \/ CreateFailed(p) \/ LoopEscaped(p)) ) =>
            \E id \in DocsOf(p) :
                /\ collection[id].status = "failed"
                /\ collection[id].error # NoError

\* C5 amended: a finished scheduled run that aborted after its JobRun was
\* created (an exception left the keyword loop, or the status=completed write
\* raised) called the status=failed write, and when the sink applied that
\* write the JobRun has status failed and the error set; a run that aborted
\* on a login or insert_one failure never got a document_id and no JobRun of
\* it has status failed or an error.
C5_FailedOnlyWithDocument ==
    \A p \in Procs :
        (Done(p) /\ entry[p] = Scheduled) =>
            /\ ( /\ document_id[p] # 0
                 /\ \/ LoopEscaped(p)
                    \/ StatusWrite(p, "completed", {"error", "applied_error"}) ) =>
                   /\ StatusWrite(p, "failed", WriteOutcomes)
                   /\ StatusWrite(p, "failed", {"ok", "applied_error"}) =>
                          /\ collection[document_id[p]].status = "failed"
                          /\ collection[document_id[p]].error # NoError
            /\ (LoginFailed(p) \/ CreateFailed(p)) =>
                   /\ document_id[p] = 0
                   /\ \A id \in DocsOf(p) :
                          /\ collection[id].status # "failed"
                          /\ collection[id].error = NoError

\* C5 witness: a finished run whose exception left the keyword loop and whose
\* status=failed write was applied.
C5_Witness ==
    /\ Done(1) /\ entry[1] = Scheduled /\ document_id[1] # 0
    /\ LoopEscaped(1)
    /\ StatusWrite(1, "failed", {"ok"})
    /\ collection[document_id[1]].status = "failed"
    /\ collection[document_id[1]].error # NoError

\* C6 as stated: in every step, a JobRun whose status is completed or failed
\* is left unchanged, the status only changes from in_progress, and the
\* error field is present only with status failed.
C6_Original ==
    [][\A id \in 1..Len(collection) :
          /\ collection[id].status \in {"completed", "failed"} =>
                 collection'[id] = collection[id]
          /\ collection'[id].status # collection[id].status =>
                 collection[id].status = "in_progress"
          /\ collection'[id].error # NoError =>
                 collection'[id].status = "failed"]_vars

\* C7 as stated: in every state the keywords of a JobRun's stored records are
\* in strictly increasing list position (a subsequence of KEYWORDS with no
\* keyword twice).
C7_Original ==
    \A id \in 1..Len(collection) :
        \A i, j \in 1..Len(collection[id].data) :
            i < j => KeywordIndex(collection[id].data[i].keyword)
                       < KeywordIndex(collection[id].data[j].keyword)

\* C8: while a credential is missing, neither entry point does anything but
\* return: no document, no login, no sink call, no driver; get_analytics
\* returns the "not configured" error and run_analytics_and_store None.
C8_NotConfiguredSkips ==
    ~(credentials.mail /\ credentials.username /\ credentials.password) =>
        /\ collection = <<>>
        /\ \A p \in Procs :
               /\ trace[p] = <<>>
               /\ driver[p] = "none"
               /\ document_id[p] = 0
               /\ pc[p] \in {"idle", "done"}
               /\ Done(p) =>
                      response[p] =
                          IF entry[p] = OnDemand
                          THEN [kind |-> "error", error |-> "not configured"]
                          ELSE [kind |-> "none"]

\* C8 witness: get_analytics returned "not configured" with only the password
\* missing.
C8_Witness ==
    /\ credentials = [mail |-> TRUE, username |-> TRUE, password |-> FALSE]
    /\ Done(1) /\ entry[1] = OnDemand
    /\ response[1] = [kind |-> "error", error |-> "not configured"]
    /\ collection = <<>> /\ trace[1] = <<>>

\* C9: when an entry point has returned (or raised), a driver that was
\* created has been quit.
C9_DriverReleased ==
    \A p \in Procs :
        Done(p) =>
            /\ driver[p] # "open"
            /\ (LoginOk(p) \/ driver[p] # "none") =>
                   (driver[p] = "quit" /\ quits[p] >= 1)

\* C9 witness: a run with a successful login that ended with the exception of
\* the status=failed write leaving it, its driver quit.
C9_Witness ==
    /\ Done(1) /\ LoginOk(1)
    /\ response[1].kind = "raised"
    /\ driver[1] = "quit"

(***************************************************************************)
(* Properties of get_keyword_data                                          *)
(***************************************************************************)
Bucketed(record) ==
    record.sentiment_distribution.positive
        + record.sentiment_distribution.neutral
        + record.sentiment_distribution.negative

WithContent(ts) == Cardinality({i \in 1..Len(ts) : ts[i].content # ""})
WithoutContent(ts) == Cardinality({i \in 1..Len(ts) : ts[i].content = ""})

\* C10: a success record has tweet_count equal to the number of fetched
\* posts, its three buckets sum to the number of fetched posts with
\* non-empty content, and the difference is the number of fetched posts with
\* empty content.
C10_CountAsymmetry ==
    (analysis # NoAnalysis /\ ~IsFailure(analysis)) =>
        /\ analysis.tweet_count = Len(tweets.tweets)
        /\ Bucketed(analysis) = WithContent(tweets.tweets)
        /\ analysis.tweet_count - Bucketed(analysis) = WithoutContent(tweets.tweets)

\* C10 witness: a success record over a fetch with both empty and non-empty
\* posts, so that tweet_count exceeds the bucket sum.
C10_Witness ==
    /\ analysis # NoAnalysis /\ ~IsFailure(analysis)
    /\ analysis.tweet_count = 3
    /\ Bucketed(analysis) = 1
    /\ WithoutContent(tweets.tweets) = 2

\* C11 as stated: in a success record the three buckets sum to tweet_count,
\* and tweet_count counts only the posts with non-empty content.
C11_Original ==
    (analysis # NoAnalysis /\ ~IsFailure(analysis)) =>
        /\ Bucketed(analysis) = analysis.tweet_count
        /\ analysis.tweet_count = WithContent(tweets.tweets)

\* C11 amended: in a success record the three buckets sum to at most
\* tweet_count, which counts every fetched post, and the two are equal
\* exactly when no fetched post has empty content.
C11_BucketsWithinCount ==
    (analysis # NoAnalysis /\ ~IsFailure(analysis)) =>
        /\ Bucketed(analysis) <= analysis.tweet_count
        /\ Bucketed(analysis) = analysis.tweet_count
               <=> \A i \in 1..Len(tweets.tweets) : tweets.tweets[i].content # ""

\* C11 witness: a success record over three posts that all have content, so
\* that the buckets sum to tweet_count.
C11_Witness ==
    /\ analysis # NoAnalysis /\ ~IsFailure(analysis)
    /\ analysis.tweet_count = 3
    /\ Bucketed(analysis) = 3

\* Number of fetched posts whose content is one of cs.
CountOf(ts, cs) == Cardinality({i \in 1..Len(ts) : ts[i].content \in cs})

\* C12: in a success record, positive counts the posts scoring above 0.2
\* ("moon", 0.8), negative those scoring below -0.2 ("scam", -0.7) and
\* neutral every other scored post, among them the posts scoring exactly 0.2
\* ("good") and exactly -0.2 ("bad"); every scored post is in one bucket.
C12_StrictThresholds ==
    (analysis # NoAnalysis /\ ~IsFailure(analysis)) =>
        LET d == analysis.sentiment_distribution
            ts == tweets.tweets
        IN  /\ d.positive = CountOf(ts, {"moon"})
            /\ d.negative = CountOf(ts, {"scam"})
            /\ d.neutral = CountOf(ts, {"good", "meh", "bad"})
            /\ d.positive + d.neutral + d.negative = WithContent(ts)

\* C12 witness: a success record over a post scoring exactly 0.2, one scoring
\* exactly -0.2 and one scoring 0.8: two neutral, one positive.
C12_Witness ==
    /\ analysis # NoAnalysis /\ ~IsFailure(analysis)
    /\ CountOf(tweets.tweets, {"good"}) = 1
    /\ CountOf(tweets.tweets, {"bad"}) = 1
    /\ CountOf(tweets.tweets, {"moon"}) = 1
    /\ analysis.sentiment_distribution =
           [positive |-> 1, neutral |-> 2, negative |-> 0]

\* Sum of the scores of the posts with content, read off the fetched posts.
RECURSIVE ScoreTotal(_)
ScoreTotal(ts) ==
    IF ts = <<>> THEN 0
    ELSE (IF Head(ts).content # "" THEN Polarity(Head(ts).content) ELSE 0)
             + ScoreTotal(Tail(ts))

\* C13: a fetch that returns gives a success record; with no post or only
\* posts without content its average is 0 and its distribution 0/0/0; with a
\* scored post the average is the sum of the scores of exactly the posts with
\* content over their number (never a division by zero).
C13_AverageOfScored ==
    (analysis # NoAnalysis /\ ~tweets.raised) =>
        /\ ~IsFailure(analysis)
        /\ analysis.average_sentiment.den >= 1
        /\ WithContent(tweets.tweets) = 0 =>
               /\ analysis.average_sentiment = [num |-> 0, den |-> 1]
               /\ analysis.sentiment_distribution =
                      [positive |-> 0, neutral |-> 0, negative |-> 0]
        /\ WithContent(tweets.tweets) > 0 =>
               /\ analysis.average_sentiment.num = ScoreTotal(tweets.tweets)
               /\ analysis.average_sentiment.den = WithContent(tweets.tweets)

\* C13 witness: a success record over two posts without content: average 0,
\* distribution 0/0/0, tweet_count 2.
C13_Witness ==
    /\ analysis # NoAnalysis /\ ~IsFailure(analysis)
    /\ Len(tweets.tweets) = 2 /\ WithContent(tweets.tweets) = 0
    /\ analysis.average_sentiment = [num |-> 0, den |-> 1]
    /\ Bucketed(analysis) = 0

(***************************************************************************)
(* scrape_keyword_tweets: the collection loop                              *)
(***************************************************************************)
\* String forms str(card) of the card objects the page hands out.
Elems == {"e1", "e2", "e3", "e4"}

\* The posts on the page; they differ in content, so the same content
\* collected twice is the same post collected twice.
PagePosts == {"moon", "scam"}

\* A card of tweet_cards: its string form, the post it renders and what
\* _extract_tweet_data makes of it: a post ("tweet"), an advertisement
\* ("ad": no time element) or None ("none": an exception while extracting).
Cards == [elem : Elems, post : PagePosts, kind : {"tweet", "ad", "none"}]

None == [none |-> TRUE]

\* _extract_tweet_data(card)
ExtractTweetData(card) ==
    CASE card.kind = "ad"   -> [is_ad |-> TRUE]
      [] card.kind = "none" -> None
      [] OTHER              -> Tweet(card.post)

\* Variant: the advertisement test is left out.
KeepNotNone(tweet_data) == tweet_data # None

\* `if tweet_data and not tweet_data.get('is_ad', False)`
Keep(tweet_data) == tweet_data # None /\ ~tweet_data.is_ad

\* The condition of the while loop.
Collecting ==
    Len(tweets_data) < MaxTweets /\ scroll_attempts < MaxScrollAttempts

InitScrape ==
    /\ credentials = [mail |-> TRUE, username |-> TRUE, password |-> TRUE]
    /\ collection = <<>>
    /\ pc = [p \in Procs |-> "idle"]
    /\ entry = [p \in Procs |-> "none"]
    /\ driver = [p \in Procs |-> "open"]
    /\ quits = [p \in Procs |-> 0]
    /\ document_id = [p \in Procs |-> 0]
    /\ idx = [p \in Procs |-> 1]
    /\ exc = [p \in Procs |-> "none"]
    /\ results = [p \in Procs |-> <<>>]
    /\ response = [p \in Procs |-> [kind |-> "pending"]]
    /\ trace = [p \in Procs |-> <<>>]
    /\ tweets = Raised
    /\ analysis = NoAnalysis
    /\ ScrapeIdle
    /\ LoginIdle

\* Top of an iteration: driver.find_elements returns up to MaxCards cards, or
\* raises, which the outer except counts as a scroll attempt.
FindCards ==
    /\ spc = "while"
    /\ Collecting
    /\ \/ /\ \E n \in 0..MaxCards : cards_left' = n
          /\ spc' = "cards"
          /\ added_tweets' = 0
          /\ UNCHANGED <<scroll_attempts, iterations, stale>>
       \/ /\ scroll_attempts' = scroll_attempts + 1
          /\ iterations' = iterations + 1
          /\ stale' = stale + 1
          /\ UNCHANGED <<spc, added_tweets, cards_left>>
    /\ UNCHANGED <<runVars, loginVars, tweets, analysis, tweets_data, tweet_ids>>

\* One pass of `for card in tweet_cards`: a card already seen is skipped,
\* a new one is remembered, extracted and appended when it is kept.
NextCard ==
    /\ spc = "cards"
    /\ cards_left > 0
    /\ Len(tweets_data) < MaxTweets
    /\ cards_left' = cards_left - 1
    /\ \E card \in Cards :
        IF card.elem \in tweet_ids
        THEN UNCHANGED <<tweet_ids, tweets_data, added_tweets>>
        ELSE /\ tweet_ids' = tweet_ids \cup {card.elem}
             /\ IF Keep(ExtractTweetData(card))
                THEN /\ tweets_data' =
                            Append(tweets_data, ExtractTweetData(card))
                     /\ added_tweets' = added_tweets + 1
                ELSE UNCHANGED <<tweets_data, added_tweets>>
    /\ UNCHANGED <<runVars, loginVars, tweets, analysis, spc, scroll_attempts,
                   iterations, stale>>

\* Variant: an iteration that added nothing is not counted.
AfterNoProgressUncounted(attempts, scroll_raised) == attempts

\* scroll_attempts after an iteration that added nothing: one more, and one
\* more again when the Retry click or the scroll script raises, because the
\* outer except counts the same iteration a second time.
AfterNoProgress(attempts, scroll_raised) ==
    IF scroll_raised THEN attempts + 2 ELSE attempts + 1

\* End of the for loop (cards exhausted, or break at max_tweets): the
\* `if added_tweets == 0` bookkeeping and the scroll.
AfterCards ==
    /\ spc = "cards"
    /\ cards_left = 0 \/ Len(tweets_data) >= MaxTweets
    /\ spc' = "while"
    /\ iterations' = iterations + 1
    /\ IF added_tweets = 0
       THEN /\ \E scroll_raised \in BOOLEAN :
                 scroll_attempts' = AfterNoProgress(scroll_attempts, scroll_raised)
            /\ stale' = stale + 1
       ELSE /\ scroll_attempts' = 0
            /\ stale' = 0
    /\ UNCHANGED <<runVars, loginVars, tweets, analysis, tweets_data, tweet_ids,
                   added_tweets, cards_left>>

\* The while condition is false: return tweets_data.
ReturnTweets ==
    /\ spc = "while"
    /\ ~Collecting
    /\ spc' = "returned"
    /\ UNCHANGED <<runVars, loginVars, tweets, analysis, tweets_data, tweet_ids,
                   scroll_attempts, added_tweets, cards_left, iterations, stale>>

NextScrape == FindCards \/ NextCard \/ AfterCards \/ ReturnTweets

SpecScrape == InitScrape /\ [][NextScrape]_vars

(***************************************************************************)
(* Properties of scrape_keyword_tweets                                     *)
(***************************************************************************)

\* C14: at every step tweets_data holds at most max_tweets entries, none of
\* them None and none of them an advertisement; so does the returned list.
C14_BoundedNoAds ==
    /\ Len(tweets_data) <= MaxTweets
    /\ \A i \in 1..Len(tweets_data) :
           tweets_data[i] # None /\ ~tweets_data[i].is_ad

\* C14 witness: the loop returned max_tweets posts after having seen at
\* least one card that was not kept (an advertisement or a None).
C14_Witness ==
    /\ spc = "returned"
    /\ Len(tweets_data) = MaxTweets
    /\ Cardinality(tweet_ids) > Len(tweets_data)

\* C15 as stated: no post occurs twice in tweets_data.
C15_Original ==
    \A i, j \in 1..Len(tweets_data) : i < j => tweets_data[i] # tweets_data[j]

\* C19 as stated: the loop returns only with max_tweets posts collected or
\* after max_scroll_attempts consecutive iterations that added no post.
C19_Original ==
    spc = "returned" =>
        Len(tweets_data) = MaxTweets \/ stale = MaxScrollAttempts

\* C19 amended: the loop always terminates.  It returns only with max_tweets
\* posts collected or with scroll_attempts at max_scroll_attempts or above;
\* scroll_attempts is 0 after an iteration that added a post and grows by 1
\* or 2 (2 when the Retry click or scroll script raised) per iteration that
\* added none, so the loop ends after at most max_scroll_attempts such
\* iterations in a row, and the number of iterations is bounded.
C19_LoopTerminates ==
    /\ stale <= scroll_attempts
    /\ scroll_attempts <= 2 * stale
    /\ stale <= MaxScrollAttempts
    /\ scroll_attempts <= MaxScrollAttempts + 1
    /\ iterations <= (MaxTweets + 1) * MaxScrollAttempts
    /\ spc = "returned" =>
           Len(tweets_data) = MaxTweets \/ scroll_attempts >= MaxScrollAttempts
    /\ spc # "returned" => ENABLED NextScrape

\* C19 witness: the loop returned short of max_tweets, after a post had been
\* added, with fewer than max_scroll_attempts iterations without progress.
C19_Witness ==
    /\ spc = "returned"
    /\ Len(tweets_data) >= 1 /\ Len(tweets_data) < MaxTweets
    /\ scroll_attempts >= MaxScrollAttempts
    /\ stale < MaxScrollAttempts

(***************************************************************************)
(* Two executions side by side                                             *)
(***************************************************************************)
\* The fetch outcomes explored when two executions run side by side.
PairFetches == {Raised, Returned(<<Tweet("moon"), Tweet("")>>)}

\* A step of execution p inside run_analytics_and_store (Login and Finally
\* are the same code in get_analytics).
RunBody(p, F) ==
    \/ Login(p)
    \/ CreateRun(p)
    \/ ProcessKeyword(p, F)
    \/ KeywordExcept(p)
    \/ MarkCompleted(p)
    \/ HandleFatal(p)
    \/ Finally(p)

\* A step of execution p once it has entered either function.
Body(p, F) ==
    \/ RunBody(p, F)
    \/ ApiProcessKeyword(p, F)
    \/ ApiReturn(p)

\* The scheduled job (execution 1) and a request to /analytics (execution 2),
\* in any interleaving.
NextPair ==
    \/ Start(1, Scheduled)
    \/ Start(2, OnDemand)
    \/ \E p \in Procs : Body(p, PairFetches)

SpecPair == Init /\ [][NextPair]_vars

\* What the fetches of execution p return when two runs overlap: the runs
\* see different posts, so their records differ.
OverlapFetches(p) ==
    {Returned(<<Tweet(IF p = 1 THEN "moon" ELSE "scam"), Tweet("")>>)}

\* Two executions of run_analytics_and_store, in any interleaving.
NextOverlap ==
    \/ \E p \in Procs : Start(p, Scheduled)
    \/ \E p \in Procs : RunBody(p, OverlapFetches(p))

SpecOverlap == Init /\ [][NextOverlap]_vars

(***************************************************************************)
(* Properties of two executions                                            *)
(***************************************************************************)

\* The Post Source behaved the same for executions p and q: the same number
\* of fetches, each with the same outcome.
SameFetches(p, q) ==
    /\ Len(Analyses(p)) = Len(Analyses(q))
    /\ \A i \in 1..Len(Analyses(p)) : Analyses(p)[i].fetch = Analyses(q)[i].fetch

\* Execution p is a finished scheduled run and q a finished on-demand query,
\* both logged in, no sink call of p raised, same Post Source behaviour.
SamePipelineCase(p, q) ==
    /\ entry[p] = Scheduled /\ entry[q] = OnDemand
    /\ Done(p) /\ Done(q)
    /\ LoginOk(p) /\ LoginOk(q)
    /\ ~SinkRaised(p)
    /\ SameFetches(p, q)

\* C16: for the same Post Source behaviour, a successful login and a sink
\* whose calls all return, the sequence get_analytics returns has exactly one
\* entry per keyword in keyword-list order and equals, entry by entry, the
\* results stored in the JobRun of run_analytics_and_store.
C16_SharedPipeline ==
    \A p \in Procs, q \in Procs :
        SamePipelineCase(p, q) =>
            /\ response[q].kind = "results"
            /\ Len(response[q].results) = Len(KEYWORDS)
            /\ \A i \in 1..Len(KEYWORDS) :
                   response[q].results[i].keyword = KEYWORDS[i]
            /\ document_id[p] \in 1..Len(collection)
            /\ response[q].results = collection[document_id[p]].data

\* Both entry points finished on the same Post Source behaviour, with a
\* failure record and a success record in the response.
C16_Witness ==
    \E p \in Procs, q \in Procs :
        /\ SamePipelineCase(p, q)
        /\ response[q].kind = "results"
        /\ \E i \in 1..Len(response[q].results) :
               IsFailure(response[q].results[i])
        /\ \E i \in 1..Len(response[q].results) :
               ~IsFailure(response[q].results[i])
        /\ collection[document_id[p]].data = response[q].results

\* The records whose $push the sink applied for execution p, in call order.
AppliedPushes(p) ==
    LET pushes == SelectSeq(trace[p], LAMBDA e : e.op = "push" /\ Applied(e.out))
    IN  [i \in 1..Len(pushes) |-> pushes[i].record]

\* The status the applied $set calls of execution p leave in its document.
AppliedStatus(p) ==
    LET sets == SelectSeq(trace[p],
                          LAMBDA e : e.op = "set_status" /\ Applied(e.out))
    IN  IF sets = <<>> THEN "in_progress" ELSE sets[Len(sets)].status

\* The keywords of the records are in keyword-list order.
InKeywordOrder(data) ==
    \A i \in 1..Len(data), j \in 1..Len(data) :
        i <= j => KeywordIndex(data[i].keyword) <= KeywordIndex(data[j].keyword)

\* C17: when two executions of run_analytics_and_store overlap, in every
\* interleaving each holds a document id of its own, every document holds
\* exactly the records and the status that the writes of the run that
\* inserted it applied (nothing written by the other run), and the records of
\* every document are in keyword-list order.
C17_RunsIsolated ==
    /\ \A p \in Procs : document_id[p] # 0 => document_id[p] \in DocsOf(p)
    /\ \A p \in Procs, q \in Procs :
           (p # q /\ document_id[p] # 0) => document_id[p] # document_id[q]
    /\ \A id \in 1..Len(collection) :
           LET owner == collection[id].run
           IN  IF id = document_id[owner]
               THEN /\ collection[id].data = AppliedPushes(owner)
                    /\ collection[id].status = AppliedStatus(owner)
               ELSE /\ collection[id].data = <<>>
                    /\ collection[id].status = "in_progress"
    /\ \A id \in 1..Len(collection) : InKeywordOrder(collection[id].data)

\* Both runs are inside their keyword loop at the same time, each with
\* records of its own in its own document.
C17_Witness ==
    /\ pc[1] = "loop" /\ pc[2] = "loop"
    /\ document_id[1] # 0 /\ document_id[2] # 0
    /\ Len(collection[document_id[1]].data) >= 1
    /\ Len(collection[document_id[2]].data) >= 1
    /\ collection[document_id[1]].data # collection[document_id[2]].data

\* C18: a failure record stored in a JobRun for keyword k implies that the
\* analysis of k failed: every stored record with an error field belongs to a
\* keyword for which some call of get_keyword_data by that run returned a
\* failure record.
C18_Original ==
    \A id \in 1..Len(collection) :
        \A i \in 1..Len(collection[id].data) :
            IsFailure(collection[id].data[i]) =>
                \E j \in 1..Len(Analyses(collection[id].run)) :
                    /\ Analyses(collection[id].run)[j].keyword =
                           collection[id].data[i].keyword
                    /\ IsFailure(Analyses(collection[id].run)[j].record)

(***************************************************************************)
(* login(): the three input steps and the cookie check                     *)
(***************************************************************************)

\* `if input_attempt >= 3` of the three input steps.
MaxInputAttempts == 3

\* What one pass through the try block of an input step does: the element is
\* found and typed into ("found"), find_element raises NoSuchElementException
\* ("not_found"), or some other exception is raised by find_element or
\* send_keys ("other"), which no input step catches.
LookupOutcomes == {"found", "not_found", "other"}

InputSteps == {"username", "unusual_activity", "password"}

\* login() with the driver open, about to call _input_username.
InitLogin ==
    /\ credentials = [mail |-> TRUE, username |-> TRUE, password |-> TRUE]
    /\ collection = <<>>
    /\ pc = [p \in Procs |-> "idle"]
    /\ entry = [p \in Procs |-> "none"]
    /\ driver = [p \in Procs |-> IF p = 1 THEN "open" ELSE "none"]
    /\ quits = [p \in Procs |-> 0]
    /\ document_id = [p \in Procs |-> 0]
    /\ idx = [p \in Procs |-> 1]
    /\ exc = [p \in Procs |-> "none"]
    /\ results = [p \in Procs |-> <<>>]
    /\ response = [p \in Procs |-> [kind |-> "pending"]]
    /\ trace = [p \in Procs |-> <<>>]
    /\ tweets = Raised
    /\ analysis = NoAnalysis
    /\ ScrapeIdle
    /\ LoginIdle

\* An input step returned: login() calls the next one with a fresh counter.
StepReturns(next) ==
    /\ lpc' = next
    /\ input_attempt' = 0
    /\ UNCHANGED <<login_error, driver, quits>>

\* An exception left the try block of login(): the handler quits the driver
\* and re-raises.
LoginRaises(e) ==
    /\ lpc' = "raised"
    /\ login_error' = e
    /\ driver' = [driver EXCEPT ![1] = "quit"]
    /\ quits' = [quits EXCEPT ![1] = @ + 1]
    /\ UNCHANGED input_attempt

\* The step sleeps and goes round its while loop again.
StepRetries ==
    /\ input_attempt' = input_attempt + 1
    /\ UNCHANGED <<lpc, login_error, driver, quits>>

\* The test that ends the retries of an input step.
OutOfAttemptsLate(attempt) == attempt > MaxInputAttempts
OutOfAttempts(attempt) == attempt >= MaxInputAttempts

LoginFrame ==
    UNCHANGED <<credentials, collection, pc, entry, document_id, idx, exc,
                results, response, trace, tweets, analysis, scrapeVars>>

\* One pass through the while loop of _input_username.
InputUsername ==
    /\ lpc = "username"
    /\ \E o \in LookupOutcomes :
        /\ lookups' = Append(lookups, [step |-> "username", out |-> o])
        /\ CASE o = "found" -> StepReturns("unusual_activity")
             [] o = "other" -> LoginRaises("other")
             [] OTHER ->
                  IF OutOfAttempts(input_attempt + 1)
                  THEN LoginRaises("Failed to input username after 3 attempts")
                  ELSE StepRetries
    /\ LoginFrame

\* One pass through the while loop of _input_unusual_activity.
InputUnusualActivity ==
    /\ lpc = "unusual_activity"
    /\ \E o \in LookupOutcomes :
        /\ lookups' = Append(lookups, [step |-> "unusual_activity", out |-> o])
        /\ CASE o = "found" -> StepReturns("password")
             [] o = "other" -> LoginRaises("other")
             [] OTHER ->
                  IF OutOfAttempts(input_attempt + 1)
                  THEN StepReturns("password")
                  ELSE StepRetries
    /\ LoginFrame

\* One pass through the while loop of _input_password.
InputPassword ==
    /\ lpc = "password"
    /\ \E o \in LookupOutcomes :
        /\ lookups' = Append(lookups, [step |-> "password", out |-> o])
        /\ CASE o = "found" -> StepReturns("cookies")
             [] o = "other" -> LoginRaises("other")
             [] OTHER ->
                  IF OutOfAttempts(input_attempt + 1)
                  THEN LoginRaises("Failed to input password after 3 attempts")
                  ELSE StepRetries
    /\ LoginFrame

\* The search of the cookies for auth_token and the return of login().
CheckCookies ==
    /\ lpc = "cookies"
    /\ \E auth_token \in BOOLEAN :
        IF auth_token
        THEN /\ lpc' = "returned"
             /\ UNCHANGED <<input_attempt, login_error, driver, quits>>
        ELSE LoginRaises("Login failed - no auth token found")
    /\ UNCHANGED lookups
    /\ LoginFrame

NextLogin ==
    \/ InputUsername
    \/ InputUnusualActivity
    \/ InputPassword
    \/ CheckCookies

SpecLogin == InitLogin /\ [][NextLogin]_vars

\* The find_element calls of one input step so far, in order.
LookupsOf(s) == SelectSeq(lookups, LAMBDA e : e.step = s)

\* The step looked its element up n times and never found it.
MissedTimes(s, n) ==
    /\ Len(LookupsOf(s)) = n
    /\ \A i \in 1..n : LookupsOf(s)[i].out = "not_found"

\* The message of the exception an input step raises by itself.
StepError(s) ==
    IF s = "username" THEN "Failed to input username after 3 attempts"
    ELSE "Failed to input password after 3 attempts"

\* C20: each input step of login() looks its element up at most 3 times and
\* makes no lookup after one that did not end in element-not-found; it keeps
\* retrying after a first and a second miss and stops at the first success;
\* after the third miss _input_username and _input_password raise their
\* error, while _input_unusual_activity returns without raising, so that
\* login() reaches the password step.
C20_InputAttempts ==
    \A s \in InputSteps :
        /\ Len(LookupsOf(s)) <= 3
        /\ \A i \in 1..(Len(LookupsOf(s)) - 1) :
               LookupsOf(s)[i].out = "not_found"
        /\ (MissedTimes(s, 1) \/ MissedTimes(s, 2)) => lpc = s
        /\ (LookupsOf(s) # <<>> /\
            LookupsOf(s)[Len(LookupsOf(s))].out = "found") => lpc # s
        /\ MissedTimes(s, 3) =>
               IF s = "unusual_activity"
               THEN lpc = "password" \/ LookupsOf("password") # <<>>
               ELSE lpc = "raised" /\ login_error = StepError(s)

\* _input_username found its element at the third lookup,
\* _input_unusual_activity gave up after three misses, and _input_password
\* raised after three misses.
C20_Witness ==
    /\ Len(LookupsOf("username")) = 3
    /\ LookupsOf("username")[3].out = "found"
    /\ MissedTimes("unusual_activity", 3)
    /\ MissedTimes("password", 3)
    /\ lpc = "raised"
    /\ login_error = StepError("password")

(***************************************************************************)
(* Release of the browser session                                          *)
(***************************************************************************)

\* C21: within one execution of run_analytics_and_store or get_analytics
\* driver.quit() is called at most once, also when login fails after the
\* driver was created.
C21_Original ==
    \A p \in Procs : quits[p] <= 1

=============================================================================
